---- MODULE Spec2Model ----
(***************************************************************************)
(* Job Application Tracker: the season / job lifecycle kept in the SQLite  *)
(* store, as the repositories, the service layer and the maintenance       *)
(* scripts of the repository drive it.                                     *)
(*                                                                         *)
(* Text values are sequences of one-character strings, so that length,     *)
(* stripping and character tests are computed as the code computes them.   *)
(* SQL NULL and Python None are the integer 0: row ids, user ids and       *)
(* timestamps all start at 1.                                              *)
(***************************************************************************)
EXTENDS Integers, Sequences, FiniteSets, TLC

VARIABLES seasons, jobs, users, sqlite_sequence, now, ret, pc, pending, session, obj

vars == <<seasons, jobs, users, sqlite_sequence, now, ret, pc, pending, session, obj>>

(***************************************************************************)
(* Bounds of the model.                                                    *)
(***************************************************************************)
MaxSeasons == 3     \* season ids handed out by AUTOINCREMENT
MaxJobs == 2        \* job ids handed out by AUTOINCREMENT
MaxUsers == 2       \* user ids handed out by AUTOINCREMENT
MaxTime == 2        \* readings of the wall clock

NULL == 0

(***************************************************************************)
(* Input values.                                                           *)
(***************************************************************************)
Summer == <<"S", "u", "m", "m", "e", "r">>
Fall == <<"F", "a", "l", "l">>
TooShort == <<"a", "b">>
Quoted == <<"a", "<", "b">>

StoredNames == {Summer, Fall}
SeasonNames == StoredNames \cup {TooShort, Quoted}

Engineer == <<"S", "W", "E">>
Acme == <<"A", "c", "m", "e">>
OneChar == <<"x">>
Roles == {Engineer, OneChar}
Companies == {Acme, OneChar}

JOB_STATUSES == <<"Applied", "Phone Screen", "Technical Interview",
                  "Onsite Interview", "Final Interview", "Offer",
                  "Rejected", "Withdrawn", "On Hold">>
JobStatus == {JOB_STATUSES[i] : i \in DOMAIN JOB_STATUSES}
StatusInputs == {"Applied", "Offer"}

UserIds == 1..MaxUsers
SeasonIds == 1..MaxSeasons

(***************************************************************************)
(* utils/validation.py                                                     *)
(***************************************************************************)
RECURSIVE lstrip(_)
lstrip(s) == IF s # <<>> /\ Head(s) = " " THEN lstrip(Tail(s)) ELSE s

RECURSIVE rstrip(_)
rstrip(s) ==
    IF s # <<>> /\ s[Len(s)] = " " THEN rstrip(SubSeq(s, 1, Len(s) - 1)) ELSE s

strip(s) == rstrip(lstrip(s))

SEASON_MIN_LENGTH == 3
SEASON_MAX_LENGTH == 100
FIELD_MIN_LENGTH == 2
FIELD_MAX_LENGTH == 200

Valid == [ok |-> TRUE, error |-> ""]
Invalid(msg) == [ok |-> FALSE, error |-> msg]

validate_input(value, required, min_length, max_length) ==
    IF value = <<>> \/ strip(value) = <<>>
    THEN IF required THEN Invalid("This field is required") ELSE Valid
    ELSE IF Len(strip(value)) < min_length
         THEN Invalid("Minimum length")
         ELSE IF max_length # 0 /\ Len(strip(value)) > max_length
              THEN Invalid("Maximum length")
              ELSE Valid

SpecialChars == {"<", ">", "\"", "'"}

validate_season_name(name) ==
    LET v == validate_input(name, TRUE, SEASON_MIN_LENGTH, SEASON_MAX_LENGTH)
    IN  IF ~v.ok
        THEN v
        ELSE IF \E i \in DOMAIN name : name[i] \in SpecialChars
             THEN Invalid("Season name cannot contain special characters")
             ELSE Valid

validate_company_name(name) ==
    validate_input(name, TRUE, FIELD_MIN_LENGTH, FIELD_MAX_LENGTH)

validate_role(role) ==
    validate_input(role, TRUE, FIELD_MIN_LENGTH, FIELD_MAX_LENGTH)


(***************************************************************************)
(* Character order of SQLite's BINARY collation, for the characters the    *)
(* inputs use, and Python's str.lower().                                   *)
(***************************************************************************)
Digits == <<"0", "1", "2", "3", "4", "5", "6", "7", "8", "9">>
Upper == <<"A", "B", "C", "D", "E", "F", "G", "H", "I", "J", "K", "L", "M",
           "N", "O", "P", "Q", "R", "S", "T", "U", "V", "W", "X", "Y", "Z">>
Lower == <<"a", "b", "c", "d", "e", "f", "g", "h", "i", "j", "k", "l", "m",
           "n", "o", "p", "q", "r", "s", "t", "u", "v", "w", "x", "y", "z">>
Chars == <<" ", "\"", "'", ".">> \o Digits \o <<"<", ">", "@">> \o Upper
             \o <<"_">> \o Lower

Range(f) == {f[i] : i \in DOMAIN f}
Ord(c) == CHOOSE i \in DOMAIN Chars : Chars[i] = c

lower_char(c) ==
    IF c \in Range(Upper) THEN Lower[CHOOSE i \in DOMAIN Upper : Upper[i] = c] ELSE c

\* a lower() that leaves its argument as it is
lower_unchanged(s) == s

lower(s) == [i \in DOMAIN s |-> lower_char(s[i])]

RECURSIVE TextLess(_, _)
TextLess(a, b) ==
    IF b = <<>> THEN FALSE
    ELSE IF a = <<>> THEN TRUE
    ELSE IF Head(a) # Head(b) THEN Ord(Head(a)) < Ord(Head(b))
    ELSE TextLess(Tail(a), Tail(b))

(***************************************************************************)
(* The value a call hands back: a returned value ("ok"), a returned        *)
(* (False, message) tuple ("fail") or an exception that leaves the call    *)
(* ("raise").  A message stands without the values the code interpolates  *)
(* into it; an exception's text is the name of its type.                   *)
(***************************************************************************)
NoCall == [kind |-> "none", msg |-> "", value |-> NULL]
Returned(v) == [kind |-> "ok", msg |-> "", value |-> v]
Success(m, v) == [kind |-> "ok", msg |-> m, value |-> v]
Failure(m) == [kind |-> "fail", msg |-> m, value |-> NULL]
Raised(e) == [kind |-> "raise", msg |-> e, value |-> NULL]

(***************************************************************************)
(* Python binds a call's positional arguments to the parameters of the     *)
(* method: a call with another number of arguments than the method         *)
(* declares (none of these methods has defaults) raises TypeError before   *)
(* the body runs.                                                          *)
(***************************************************************************)
SeasonRepository_create_params == 1
SeasonRepository_get_active_params == 0
JobRepository_create_params == 1
create_season_call_args == 2
add_job_get_active_call_args == 1
add_job_create_call_args == 2
get_active_season_call_args == 1
end_current_season_get_active_call_args == 0

TypeError(args, params) == args # params

(***************************************************************************)
(* database/connection.py, database/repository.py: every execute_command   *)
(* opens its own connection and commits its one statement.  The connection *)
(* never sets PRAGMA foreign_keys, so SQLite does not enforce the FOREIGN   *)
(* KEY clause of the jobs table.                                           *)
(***************************************************************************)
foreign_keys == FALSE

ActiveSeasons == {r \in seasons : r.is_active = 1}

\* the UPDATE without "is_active = 0" in its SET clause
DeactivateActive_keeps_flag(rows, t) ==
    {IF r.is_active = 1 THEN [r EXCEPT !.end_date = t] ELSE r : r \in rows}

\* UPDATE seasons SET is_active = 0, end_date = ? WHERE is_active = 1
DeactivateActive(rows, t) ==
    {IF r.is_active = 1 THEN [r EXCEPT !.is_active = 0, !.end_date = t] ELSE r
         : r \in rows}

\* an INSERT that stores an end date with the new season
SeasonRow_ended(id, name, start_date, t) ==
    [id |-> id, user_id |-> NULL, name |-> name, start_date |-> start_date,
     end_date |-> t, is_active |-> 1, created_at |-> t]

\* INSERT INTO seasons (name, start_date, is_active) VALUES (?, ?, 1)
SeasonRow(id, name, start_date, t) ==
    [id |-> id, user_id |-> NULL, name |-> name, start_date |-> start_date,
     end_date |-> NULL, is_active |-> 1, created_at |-> t]

\* name TEXT NOT NULL UNIQUE
UniqueNameViolated(rows, name) == \E r \in rows : r.name = name

InsertSeason(rows, seq, name, start_date, t) ==
    IF UniqueNameViolated(rows, name)
    THEN [seasons |-> rows, seq |-> seq, error |-> "IntegrityError", id |-> NULL]
    ELSE [seasons |-> rows \cup {SeasonRow(seq + 1, name, start_date, t)},
          seq |-> seq + 1, error |-> "", id |-> seq + 1]

\* SeasonRepository.create: the UPDATE is committed before the INSERT runs.
CreateOutcome(name) ==
    InsertSeason(DeactivateActive(seasons, now), sqlite_sequence.seasons, name,
                 now, now)

CanInsertSeason(rows, name) ==
    UniqueNameViolated(rows, name) \/ sqlite_sequence.seasons < MaxSeasons

\* ON DELETE CASCADE acts only when foreign keys are enforced
JobsAfterSeasonDelete(season_id) ==
    IF foreign_keys THEN {j \in jobs : j.season_id # season_id} ELSE jobs

JobRow(id, season_id, role, company_name, status, t) ==
    [id |-> id, season_id |-> season_id, user_id |-> NULL, role |-> role,
     company_name |-> company_name, current_status |-> status,
     applied_date |-> t, last_updated |-> t]

SeasonsTouched == UNCHANGED <<jobs, users, now, pc, pending, session, obj>>
NothingStored == UNCHANGED <<seasons, jobs, users, sqlite_sequence, now, pc, pending, session, obj>>

SeasonRepository_create(name) ==
    /\ CanInsertSeason(DeactivateActive(seasons, now), name)
    /\ LET o == CreateOutcome(name)
       IN  /\ seasons' = o.seasons
           /\ sqlite_sequence' = [sqlite_sequence EXCEPT !.seasons = o.seq]
           /\ ret' = IF o.error # "" THEN Raised(o.error) ELSE Returned(o.id)
    /\ SeasonsTouched

SeasonRepository_end_current ==
    /\ seasons' = DeactivateActive(seasons, now)
    /\ ret' = Returned(IF ActiveSeasons # {} THEN 1 ELSE 0)
    /\ UNCHANGED <<jobs, users, sqlite_sequence, now, pc, pending, session, obj>>

SeasonRepository_delete(season_id) ==
    /\ seasons' = {r \in seasons : r.id # season_id}
    /\ jobs' = JobsAfterSeasonDelete(season_id)
    /\ ret' = Returned(IF \E r \in seasons : r.id = season_id THEN 1 ELSE 0)
    /\ UNCHANGED <<users, sqlite_sequence, now, pc, pending, session, obj>>

JobRepository_create(season_id, role, company_name, status) ==
    /\ sqlite_sequence.jobs < MaxJobs
    /\ IF foreign_keys /\ ~ \E r \in seasons : r.id = season_id
       THEN /\ ret' = Raised("IntegrityError")
            /\ UNCHANGED <<jobs, sqlite_sequence>>
       ELSE /\ jobs' = jobs \cup {JobRow(sqlite_sequence.jobs + 1, season_id, role,
                                         company_name, status, now)}
            /\ sqlite_sequence' = [sqlite_sequence EXCEPT !.jobs = @ + 1]
            /\ ret' = Returned(sqlite_sequence.jobs + 1)
    /\ UNCHANGED <<seasons, users, now, pc, pending, session, obj>>

(***************************************************************************)
(* services/job_tracker_service.py                                         *)
(***************************************************************************)
create_season(name, user_id) ==
    LET v == validate_season_name(name)
    IN  IF ~v.ok
        THEN ret' = Failure(v.error) /\ NothingStored
        ELSE IF TypeError(create_season_call_args, SeasonRepository_create_params)
        THEN ret' = Failure("Failed to create season: TypeError") /\ NothingStored
        ELSE /\ CanInsertSeason(DeactivateActive(seasons, now), name)
             /\ LET o == CreateOutcome(name)
                IN  /\ seasons' = o.seasons
                    /\ sqlite_sequence' = [sqlite_sequence EXCEPT !.seasons = o.seq]
                    /\ ret' = IF o.error # ""
                              THEN Failure("Failed to create season: IntegrityError")
                              ELSE Success("Season created successfully!", o.id)
             /\ SeasonsTouched

end_current_season ==
    IF TypeError(end_current_season_get_active_call_args,
                 SeasonRepository_get_active_params)
    THEN ret' = Failure("Error ending season: TypeError") /\ NothingStored
    ELSE IF ActiveSeasons = {}
    THEN ret' = Failure("No active season found") /\ NothingStored
    ELSE /\ seasons' = DeactivateActive(seasons, now)
         /\ ret' = Success("Season ended successfully", NULL)
         /\ UNCHANGED <<jobs, users, sqlite_sequence, now, pc, pending, session, obj>>

\* SELECT * FROM seasons WHERE is_active = 1, first row fetched
get_active_season(user_id) ==
    /\ IF TypeError(get_active_season_call_args, SeasonRepository_get_active_params)
       THEN ret' = Raised("TypeError")
       ELSE IF ActiveSeasons = {}
       THEN ret' = Returned(NULL)
       ELSE \E r \in ActiveSeasons : ret' = Returned(r.id)
    /\ NothingStored

\* called without applied_date_str (its default, None): no date is parsed
add_job(role, company_name, status, user_id) ==
    IF ~validate_role(role).ok
    THEN ret' = Failure("Invalid role") /\ NothingStored
    ELSE IF ~validate_company_name(company_name).ok
    THEN ret' = Failure("Invalid company name") /\ NothingStored
    ELSE IF TypeError(add_job_get_active_call_args, SeasonRepository_get_active_params)
    THEN ret' = Raised("TypeError") /\ NothingStored
    ELSE IF ActiveSeasons = {}
    THEN ret' = Failure("No active season found. Please create a season first.")
         /\ NothingStored
    ELSE IF TypeError(add_job_create_call_args, JobRepository_create_params)
    THEN ret' = Failure("Failed to add job: TypeError") /\ NothingStored
    ELSE /\ sqlite_sequence.jobs < MaxJobs
         /\ \E s \in ActiveSeasons :
                jobs' = jobs \cup {JobRow(sqlite_sequence.jobs + 1, s.id, role,
                                          company_name, status, now)}
         /\ sqlite_sequence' = [sqlite_sequence EXCEPT !.jobs = @ + 1]
         /\ ret' = Success("Job application added successfully!",
                           sqlite_sequence.jobs + 1)
         /\ UNCHANGED <<seasons, users, now, pc, pending, session, obj>>


(***************************************************************************)
(* database/repository.py, JobRepository: the queries.  Every SELECT that  *)
(* returns job rows joins the seasons table, so a job whose season row is   *)
(* gone is in no result; get_statistics counts in the jobs table alone.    *)
(* The source column is not stored by the calls of this model (NULL), and   *)
(* NULL LIKE pattern is not true.                                          *)
(***************************************************************************)
JobIds == 1..MaxJobs

\* the SELECT without its JOIN: FROM jobs j
JoinedJobs_without_join == jobs

\* FROM jobs j JOIN seasons s ON j.season_id = s.id
JoinedJobs == {j \in jobs : \E r \in seasons : r.id = j.season_id}

RECURSIVE OrderByDesc_last_first(_, _)
RECURSIVE OrderByDesc(_, _)

\* a sort that puts the last scanned of the rows with equal keys first
OrderByDesc_last_first(rows, key) ==
    IF rows = {} THEN <<>>
    ELSE LET first == CHOOSE r \in rows :
                          \A q \in rows :
                              q[key] < r[key] \/ (q[key] = r[key] /\ q.id <= r.id)
         IN  <<first>> \o OrderByDesc_last_first(rows \ {first}, key)

\* ORDER BY key DESC: the rows are scanned in rowid order (the table, or the
\* entries of one key of idx_jobs_season) and SQLite's sorter keeps the rows
\* with equal keys in the order of the scan
OrderByDesc(rows, key) ==
    IF rows = {} THEN <<>>
    ELSE LET first == CHOOSE r \in rows :
                          \A q \in rows :
                              q[key] < r[key] \/ (q[key] = r[key] /\ q.id >= r.id)
         IN  <<first>> \o OrderByDesc(rows \ {first}, key)

\* text LIKE '%term%': LIKE ignores the case of ASCII letters
Contains(text, term) ==
    \E i \in 0..(Len(text) - Len(term)) :
        lower(SubSeq(text, i + 1, i + Len(term))) = lower(term)

JobRepository_get_by_id(job_id) == {j \in JoinedJobs : j.id = job_id}

JobRepository_get_by_season(season_id) ==
    {j \in JoinedJobs : j.season_id = season_id}

JobRepository_get_by_status(status, season_id) ==
    IF season_id # NULL
    THEN {j \in JoinedJobs : j.current_status = status /\ j.season_id = season_id}
    ELSE {j \in JoinedJobs : j.current_status = status}

JobRepository_search(search_term, season_id) ==
    LET hits == {j \in JoinedJobs : \/ Contains(j.company_name, search_term)
                                    \/ Contains(j.role, search_term)}
    IN  IF season_id # NULL THEN {j \in hits : j.season_id = season_id} ELSE hits

\* the COUNT(*) without its WHERE clause
JobRepository_get_statistics_all(season_id) ==
    LET counted == {j \in jobs : j.season_id = season_id}
    IN  [total_jobs |-> Cardinality(jobs),
         status_breakdown |->
             [st \in {j.current_status : j \in counted} |->
                 Cardinality({j \in counted : j.current_status = st})]]

\* a dict is a function of its keys
JobRepository_get_statistics(season_id) ==
    LET counted == {j \in jobs : j.season_id = season_id}
    IN  [total_jobs |-> Cardinality(counted),
         status_breakdown |->
             [st \in {j.current_status : j \in counted} |->
                 Cardinality({j \in counted : j.current_status = st})]]

\* the UPDATE without its WHERE clause
UpdateStatus_every_row(rows, job_id, new_status, t) ==
    {[j EXCEPT !.current_status = new_status, !.last_updated = t] : j \in rows}

\* UPDATE jobs SET current_status = ?, last_updated = ? WHERE id = ?
UpdateStatus(rows, job_id, new_status, t) ==
    {IF j.id = job_id
     THEN [j EXCEPT !.current_status = new_status, !.last_updated = t]
     ELSE j : j \in rows}

\* DELETE FROM jobs WHERE id = ?
DeleteJob(rows, job_id) == {j \in rows : j.id # job_id}

RowsAffected(rows, job_id) == Cardinality({j \in rows : j.id = job_id})

JobsTouched == UNCHANGED <<seasons, users, sqlite_sequence, now, pc, pending, session, obj>>

(***************************************************************************)
(* services/job_tracker_service.py: status update, deletion and the reads. *)
(* A read leaves its result in ret: the set of the rows returned.          *)
(***************************************************************************)
JobRepository_get_by_id_params == 1
JobRepository_get_by_season_params == 1
get_job_by_id_call_args == 2
get_jobs_by_season_call_args == 2
get_jobs_by_season_get_active_call_args == 1

\* results of the reads: the job rows selected and the list of them that the
\* ORDER BY j.applied_date DESC of every job SELECT makes; a statistics dict
Rows(v) ==
    [kind |-> "rows", msg |-> "", value |-> NULL, rows |-> v,
     list |-> OrderByDesc(v, "applied_date")]
Stats(v) == [kind |-> "stats", msg |-> "", value |-> NULL, stats |-> v]

update_job_status(job_id, new_status) ==
    IF JobRepository_get_by_id(job_id) = {}
    THEN ret' = Failure("Job not found") /\ NothingStored
    ELSE /\ jobs' = UpdateStatus(jobs, job_id, new_status, now)
         /\ ret' = IF RowsAffected(jobs, job_id) > 0
                   THEN Success("Job status updated", NULL)
                   ELSE Failure("Failed to update job status")
         /\ JobsTouched

delete_job(job_id) ==
    IF JobRepository_get_by_id(job_id) = {}
    THEN ret' = Failure("Job not found") /\ NothingStored
    ELSE /\ jobs' = DeleteJob(jobs, job_id)
         /\ ret' = IF RowsAffected(jobs, job_id) > 0
                   THEN Success("Job application deleted successfully", NULL)
                   ELSE Failure("Failed to delete job")
         /\ JobsTouched

get_job_by_id(job_id, user_id) ==
    /\ ret' = IF TypeError(get_job_by_id_call_args, JobRepository_get_by_id_params)
              THEN Raised("TypeError")
              ELSE Rows(JobRepository_get_by_id(job_id))
    /\ NothingStored

\* season_id = NULL: the active season is looked up first
get_jobs_by_season(season_id, user_id) ==
    /\ IF season_id = NULL
       THEN IF TypeError(get_jobs_by_season_get_active_call_args,
                         SeasonRepository_get_active_params)
            THEN ret' = Raised("TypeError")
            ELSE IF ActiveSeasons = {}
            THEN ret' = Rows({})
            ELSE \E a \in ActiveSeasons :
                     ret' = Rows(JobRepository_get_by_season(a.id))
       ELSE IF TypeError(get_jobs_by_season_call_args,
                         JobRepository_get_by_season_params)
            THEN ret' = Raised("TypeError")
            ELSE ret' = Rows(JobRepository_get_by_season(season_id))
    /\ NothingStored

get_jobs_by_status(status, season_id) ==
    /\ IF season_id # NULL
       THEN ret' = Rows(JobRepository_get_by_status(status, season_id))
       ELSE IF ActiveSeasons = {}
       THEN ret' = Rows({})
       ELSE \E a \in ActiveSeasons :
                ret' = Rows(JobRepository_get_by_status(status, a.id))
    /\ NothingStored

search_jobs(search_term, season_id) ==
    /\ IF season_id # NULL
       THEN ret' = Rows(JobRepository_search(search_term, season_id))
       ELSE IF ActiveSeasons = {}
       THEN ret' = Rows({})
       ELSE \E a \in ActiveSeasons :
                ret' = Rows(JobRepository_search(search_term, a.id))
    /\ NothingStored

\* without an active season the result is the empty dict {}: it has no key
NoStatistics == [key \in {} |-> NULL]

get_job_statistics(season_id) ==
    /\ IF season_id # NULL
       THEN ret' = Stats(JobRepository_get_statistics(season_id))
       ELSE IF ActiveSeasons = {}
       THEN ret' = Stats(NoStatistics)
       ELSE \E a \in ActiveSeasons :
                ret' = Stats(JobRepository_get_statistics(a.id))
    /\ NothingStored

(***************************************************************************)
(* The lists: SeasonRepository.get_all and JobRepository.get_by_season,    *)
(* and get_all_seasons of the service, which passes user_id on to a        *)
(* get_all that takes none.                                                *)
(***************************************************************************)
SeasonRepository_get_all_params == 0
get_all_seasons_call_args == 1

SeasonList(v) == [kind |-> "seasons", msg |-> "", value |-> NULL, list |-> v]

\* SELECT * FROM seasons ORDER BY created_at DESC
SeasonRepository_get_all ==
    /\ ret' = SeasonList(OrderByDesc(seasons, "created_at"))
    /\ NothingStored

get_all_seasons(user_id) ==
    /\ ret' = IF TypeError(get_all_seasons_call_args, SeasonRepository_get_all_params)
              THEN Raised("TypeError")
              ELSE SeasonList(OrderByDesc(seasons, "created_at"))
    /\ NothingStored

JobRepository_get_by_season_call(season_id) ==
    /\ ret' = Rows(JobRepository_get_by_season(season_id))
    /\ NothingStored

(***************************************************************************)
(* auth_utils.py, database/user_repository.py                              *)
(***************************************************************************)
Zed == <<"Z", "e", "d">>
Amy == <<"a", "m", "y">>
Al == <<"a", "l">>
ZedMail == <<"z", "@", "x", ".", "i", "o">>
AmyMail == <<"a", "@", "x", ".", "i", "o">>
Secret == <<"s", "e", "c", "r", "e", "t">>
FullName == <<"Z", " ", "A">>

Registrations ==
    {<<Zed, ZedMail, Secret, FullName>>, <<Amy, AmyMail, Secret, FullName>>,
     <<Al, AmyMail, Secret, FullName>>}

USERNAME_MIN_LENGTH == 3
PASSWORD_MIN_LENGTH == 6
FULL_NAME_MIN_LENGTH == 2

\* re.match(r"^[a-zA-Z0-9_]+$", username)
UsernameChars == Range(Lower) \cup Range(Upper) \cup Range(Digits) \cup {"_"}
username_matches(s) == s # <<>> /\ \A i \in DOMAIN s : s[i] \in UsernameChars

\* re.match(r"^[^@]+@[^@]+\.[^@]+$", email)
email_matches(s) ==
    \E i \in DOMAIN s :
        /\ s[i] = "@"
        /\ i > 1
        /\ \A k \in DOMAIN s : s[k] = "@" => k = i
        /\ \E j \in DOMAIN s : s[j] = "." /\ j > i + 1 /\ j < Len(s)

\* bcrypt.hashpw: the salt is kept in the hash; checkpw recomputes with it
Salts == {"$"}
hashpw(password, salt) == <<salt>> \o password

UserRow(id, username, email, password_hash, full_name) ==
    [id |-> id, username |-> username, email |-> email,
     password_hash |-> password_hash, full_name |-> full_name,
     last_login |-> NULL, is_active |-> 1]

username_exists(username) == \E u \in users : u.username = username
email_exists(email) == \E u \in users : u.email = email

register_user(username, email, password, full_name) ==
    IF username = <<>> \/ Len(username) < USERNAME_MIN_LENGTH
    THEN ret' = Failure("Username must be at least 3 characters long") /\ NothingStored
    ELSE IF ~username_matches(username)
    THEN ret' = Failure("Username can only contain letters, numbers, and underscores")
         /\ NothingStored
    ELSE IF email = <<>> \/ ~email_matches(email)
    THEN ret' = Failure("Please enter a valid email address") /\ NothingStored
    ELSE IF password = <<>> \/ Len(password) < PASSWORD_MIN_LENGTH
    THEN ret' = Failure("Password must be at least 6 characters long") /\ NothingStored
    ELSE IF full_name = <<>> \/ Len(strip(full_name)) < FULL_NAME_MIN_LENGTH
    THEN ret' = Failure("Full name must be at least 2 characters long") /\ NothingStored
    ELSE IF username_exists(username)
    THEN ret' = Failure("Username already exists") /\ NothingStored
    ELSE IF email_exists(email)
    THEN ret' = Failure("Email already exists") /\ NothingStored
    ELSE IF username_exists(strip(lower(username)))
    THEN ret' = Failure("Username already exists") /\ NothingStored
    ELSE IF email_exists(strip(lower(email)))
    THEN ret' = Failure("Email already exists") /\ NothingStored
    ELSE /\ sqlite_sequence.users < MaxUsers
         /\ \E salt \in Salts :
                users' = users \cup
                    {UserRow(sqlite_sequence.users + 1, strip(lower(username)),
                             strip(lower(email)), hashpw(password, salt),
                             strip(full_name))}
         /\ sqlite_sequence' = [sqlite_sequence EXCEPT !.users = @ + 1]
         /\ ret' = Success("User registered successfully", sqlite_sequence.users + 1)
         /\ UNCHANGED <<seasons, jobs, now, pc, pending, session, obj>>

(***************************************************************************)
(* auth_utils.py: login, logout, the session and the login_required gate.  *)
(* The session is the flask session of one browser; its keys are present   *)
(* exactly when they are not NULL.                                         *)
(***************************************************************************)
\* the session without its keys
NoSession == [user_id |-> NULL, username |-> <<>>]

\* SELECT * FROM users WHERE username = ? AND is_active = TRUE
get_by_username(username) ==
    {u \in users : u.username = username /\ u.is_active = 1}

\* SELECT * FROM users WHERE email = ? AND is_active = TRUE
get_by_email(email) == {u \in users : u.email = email /\ u.is_active = 1}

\* the login key as typed, without lower()
LoginKey_as_typed(username) == strip(username)

\* username.lower().strip()
LoginKey(username) == strip(lower(username))

\* bcrypt.checkpw hashes the password with the salt kept in the hash
checkpw(password, hashed) ==
    hashed # <<>> /\ hashpw(password, Head(hashed)) = hashed

\* a check that only looks whether a hash is stored
check_password_any(user, password) == user.password_hash # <<>>

check_password(user, password) ==
    user.password_hash # <<>> /\ checkpw(password, user.password_hash)

\* UPDATE users SET last_login = CURRENT_TIMESTAMP WHERE id = ?
update_last_login(rows, user_id, t) ==
    {IF u.id = user_id THEN [u EXCEPT !.last_login = t] ELSE u : u \in rows}

login_user(username, password) ==
    IF username = <<>> \/ password = <<>>
    THEN ret' = Failure("Username and password are required") /\ NothingStored
    ELSE LET by_name == get_by_username(LoginKey(username))
             found == IF by_name # {} THEN by_name
                      ELSE get_by_email(LoginKey(username))
         IN  IF found = {}
             THEN ret' = Failure("Invalid username/email or password")
                  /\ NothingStored
             ELSE \E user \in found :
                      IF ~check_password(user, password)
                      THEN ret' = Failure("Invalid username/email or password")
                           /\ NothingStored
                      ELSE /\ users' = update_last_login(users, user.id, now)
                           /\ session' = [user_id |-> user.id,
                                          username |-> user.username]
                           /\ ret' = Success("Login successful", user.id)
                           /\ UNCHANGED <<seasons, jobs, sqlite_sequence, now,
                                          pc, pending, obj>>

\* a logout that pops only "username"
logout_user_keeps_id ==
    /\ session' = [session EXCEPT !.username = <<>>]
    /\ ret' = Returned(NULL)
    /\ UNCHANGED <<seasons, jobs, users, sqlite_sequence, now, pc, pending, obj>>

logout_user ==
    /\ session' = NoSession
    /\ ret' = Returned(NULL)
    /\ UNCHANGED <<seasons, jobs, users, sqlite_sequence, now, pc, pending, obj>>

\* SELECT * FROM users WHERE id = ? AND is_active = TRUE
get_by_id(user_id) == {u \in users : u.id = user_id /\ u.is_active = 1}

\* the current user, as the set of the rows found: empty when it is None
get_current_user == IF session.user_id # NULL THEN get_by_id(session.user_id) ELSE {}

\* UPDATE users SET is_active = FALSE WHERE id = ?
deactivate_user(user_id) ==
    /\ users' = {IF u.id = user_id THEN [u EXCEPT !.is_active = 0] ELSE u : u \in users}
    /\ ret' = Returned(IF \E u \in users : u.id = user_id THEN 1 ELSE 0)
    /\ UNCHANGED <<seasons, jobs, sqlite_sequence, now, pc, pending, session, obj>>

\* a gate that lets every request pass
is_logged_in_always == TRUE

\* "user_id" in session and session["user_id"] is not None
is_logged_in == session.user_id # NULL

get_current_user_id == session.user_id

HTTP_UNAUTHORIZED == 401
HTTP_FOUND == 302

\* the response of the gate: 401 with a JSON body, or the redirect to login
Response(status, body) == [kind |-> "fail", msg |-> body, value |-> status]

require_login(f, is_json) ==
    IF ~is_logged_in
    THEN /\ ret' = IF is_json
                   THEN Response(HTTP_UNAUTHORIZED, "Authentication required")
                   ELSE Response(HTTP_FOUND, "login_page")
         /\ NothingStored
    ELSE f

(***************************************************************************)
(* app.py: POST /api/seasons/end behind the gate.                          *)
(***************************************************************************)
route_end_current_season(is_json) == require_login(end_current_season, is_json)

(***************************************************************************)
(* app.py: GET /api/seasons/active behind the gate.  The handler asks the  *)
(* service for the active season of the session's user and then for        *)
(* statistics, handing the user id over where get_job_statistics takes a   *)
(* season id; an exception becomes the 500 response.                       *)
(***************************************************************************)
HTTP_INTERNAL_SERVER_ERROR == 500

\* {"success": True, "data": {"season": ..., "stats": ...}}
ActiveSeasonData(season_id, stats) ==
    [kind |-> "active", msg |-> "", value |-> season_id, stats |-> stats]

get_active_season_view ==
    /\ IF TypeError(get_active_season_call_args, SeasonRepository_get_active_params)
       THEN ret' = Response(HTTP_INTERNAL_SERVER_ERROR, "TypeError")
       ELSE IF ActiveSeasons = {}
       THEN ret' = Returned(NULL)
       ELSE \E season \in ActiveSeasons :
                ret' = ActiveSeasonData(season.id,
                           JobRepository_get_statistics(get_current_user_id))
    /\ NothingStored

route_get_active_season(is_json) == require_login(get_active_season_view, is_json)

(***************************************************************************)
(* quick_fix.py, fix_user_isolation.py: the scripts that write user_id.    *)
(* SELECT id, username FROM users LIMIT 1 has no ORDER BY; SQLite answers   *)
(* it from the covering index idx_users_username, so the row it returns is *)
(* the one with the least username.                                        *)
(***************************************************************************)
FirstUser == CHOOSE u \in users : \A w \in users : ~TextLess(w.username, u.username)

\* UPDATE <table> SET user_id = ? WHERE user_id IS NULL
AssignOrphans(rows, user_id) ==
    {IF r.user_id = NULL THEN [r EXCEPT !.user_id = user_id] ELSE r : r \in rows}

quick_fix ==
    /\ IF users = {}
       THEN ret' = Returned(0) /\ UNCHANGED <<seasons, jobs>>
       ELSE /\ seasons' = AssignOrphans(seasons, FirstUser.id)
            /\ jobs' = AssignOrphans(jobs, FirstUser.id)
            /\ ret' = Returned(1)
    /\ UNCHANGED <<users, sqlite_sequence, now, pc, pending, session, obj>>

fix_user_isolation ==
    /\ IF Cardinality(users) = 1
       THEN /\ seasons' = AssignOrphans(seasons, FirstUser.id)
            /\ jobs' = AssignOrphans(jobs, FirstUser.id)
       ELSE UNCHANGED <<seasons, jobs>>
    /\ ret' = Returned(1)
    /\ UNCHANGED <<users, sqlite_sequence, now, pc, pending, session, obj>>

(***************************************************************************)
(* models/job.py, models/season.py, models/enums.py: the objects that the  *)
(* repositories build from rows and the routes turn into JSON.  An         *)
(* Optional[str] is None (the empty tuple) or the one-element tuple of its *)
(* text; a datetime is a reading of the clock, its isoformat() a text.     *)
(* In a dict a date entry is the isoformat text or None: from_dict tests   *)
(* the entry for truth, and the text is never empty.                       *)
(***************************************************************************)
None == <<>>
Some(text) == <<text>>

\* a dict without keys; also: no object
Missing == [key \in {} |-> NULL]

JobStatusNames == <<"APPLIED", "PHONE_SCREEN", "TECHNICAL_INTERVIEW",
                    "ONSITE_INTERVIEW", "FINAL_INTERVIEW", "OFFER",
                    "REJECTED", "WITHDRAWN", "ON_HOLD">>
JobStatusMembers == Range(JobStatusNames)

\* member.value
status_value(member) ==
    JOB_STATUSES[CHOOSE i \in DOMAIN JobStatusNames : JobStatusNames[i] = member]

\* JobStatus.from_string, for the strings that are the value of a member
from_string(status_str) ==
    JobStatusNames[CHOOSE i \in DOMAIN JOB_STATUSES : JOB_STATUSES[i] = status_str]

isoformat(t) == <<"T", Digits[t + 1]>>
fromisoformat(text) == (CHOOSE i \in DOMAIN Digits : Digits[i] = text[2]) - 1

\* x.isoformat() if x else None
DateText(t) == IF t # NULL THEN isoformat(t) ELSE None

\* datetime.fromisoformat(data[key]) if data.get(key) else None
DateOf(text) == IF text # None THEN fromisoformat(text) ELSE NULL

\* a bool() that is true of every value
bool_always(v) == TRUE

\* bool(v) of an integer
bool(v) == v # 0

\* Job.__post_init__ at clock reading t
Job_post_init(job, t) ==
    [job EXCEPT !.applied_date = IF @ = NULL THEN t ELSE @,
                !.last_updated = IF @ = NULL THEN t ELSE @]

Job_to_dict(job) ==
    [id |-> job.id, season_id |-> job.season_id, role |-> job.role,
     company_name |-> job.company_name, company_website |-> job.company_website,
     source |-> job.source, current_status |-> status_value(job.current_status),
     job_description |-> job.job_description, resume_sent |-> job.resume_sent,
     applied_date |-> DateText(job.applied_date),
     last_updated |-> DateText(job.last_updated),
     season_name |-> job.season_name]

Job_from_dict(data, t) ==
    Job_post_init(
        [id |-> data.id, season_id |-> data.season_id, role |-> data.role,
         company_name |-> data.company_name,
         company_website |-> data.company_website, source |-> data.source,
         current_status |-> from_string(data.current_status),
         job_description |-> data.job_description,
         resume_sent |-> data.resume_sent,
         applied_date |-> DateOf(data.applied_date),
         last_updated |-> DateOf(data.last_updated),
         season_name |-> data.season_name], t)

\* Season.__post_init__ at clock reading t
Season_post_init(season, t) ==
    [season EXCEPT !.start_date = IF @ = NULL THEN t ELSE @,
                   !.created_at = IF @ = NULL THEN t ELSE @]

Season_to_dict(season) ==
    [id |-> season.id, name |-> season.name,
     start_date |-> DateText(season.start_date),
     end_date |-> DateText(season.end_date),
     is_active |-> IF season.is_active THEN 1 ELSE 0,
     created_at |-> DateText(season.created_at)]

Season_from_dict(data, t) ==
    Season_post_init(
        [id |-> data.id, name |-> data.name,
         start_date |-> DateOf(data.start_date),
         end_date |-> DateOf(data.end_date),
         is_active |-> bool(data.is_active),
         created_at |-> DateOf(data.created_at)], t)

\* the object at hand, the dict made of it and the object made of the dict
NoObject == [class |-> "none", self |-> Missing, data |-> Missing, copy |-> Missing]

StoreUntouched ==
    UNCHANGED <<seasons, jobs, users, sqlite_sequence, now, ret, pc, pending, session>>

to_dict ==
    /\ obj.class # "none"
    /\ obj.data = Missing
    /\ obj' = [obj EXCEPT !.data = IF obj.class = "Job"
                                   THEN Job_to_dict(obj.self)
                                   ELSE Season_to_dict(obj.self)]
    /\ StoreUntouched

from_dict ==
    /\ obj.data # Missing
    /\ obj.copy = Missing
    /\ obj' = [obj EXCEPT !.copy = IF obj.class = "Job"
                                   THEN Job_from_dict(obj.data, now)
                                   ELSE Season_from_dict(obj.data, now)]
    /\ StoreUntouched

(***************************************************************************)
(* The wall clock that datetime.now() reads.                               *)
(***************************************************************************)
Tick ==
    /\ now < MaxTime
    /\ now' = now + 1
    /\ UNCHANGED <<seasons, jobs, users, sqlite_sequence, ret, pc, pending, session, obj>>

Procs == {"p1", "p2"}
NoSeason == [name |-> <<>>, start_date |-> NULL]

Init ==
    /\ seasons = {}
    /\ jobs = {}
    /\ users = {}
    /\ sqlite_sequence = [seasons |-> 0, jobs |-> 0, users |-> 0]
    /\ now = 1
    /\ ret = NoCall
    /\ pc = [p \in Procs |-> "idle"]
    /\ pending = [p \in Procs |-> NoSeason]
    /\ session = NoSession
    /\ obj = NoObject

(***************************************************************************)
(* The season lifecycle: calls run to completion, one at a time.           *)
(***************************************************************************)
Next ==
    \/ \E name \in StoredNames : SeasonRepository_create(name)
    \/ SeasonRepository_end_current
    \/ \E id \in SeasonIds : SeasonRepository_delete(id)
    \/ \E name \in SeasonNames, u \in UserIds : create_season(name, u)
    \/ end_current_season
    \/ \E u \in UserIds : get_active_season(u)
    \/ \E r \in Registrations : register_user(r[1], r[2], r[3], r[4])
    \/ quick_fix
    \/ fix_user_isolation
    \/ Tick

Spec == Init /\ [][Next]_vars

(***************************************************************************)
(* Seasons and jobs, with the clock standing still.                        *)
(***************************************************************************)
NextJobs ==
    \/ \E name \in StoredNames : SeasonRepository_create(name)
    \/ SeasonRepository_end_current
    \/ \E id \in SeasonIds : SeasonRepository_delete(id)
    \/ \E id \in SeasonIds : JobRepository_create(id, Engineer, Acme, "Applied")
    \/ \E role \in Roles, company \in Companies, u \in UserIds :
           add_job(role, company, "Applied", u)
    \/ \E r \in Registrations : register_user(r[1], r[2], r[3], r[4])
    \/ quick_fix
    \/ fix_user_isolation

SpecJobs == Init /\ [][NextJobs]_vars

(***************************************************************************)
(* SeasonRepository.create statement by statement: two callers, each       *)
(* execute_command a commit of its own, a caller may die between its two   *)
(* statements.                                                             *)
(***************************************************************************)
create_update(p, name) ==
    /\ pc[p] = "idle"
    /\ seasons' = DeactivateActive(seasons, now)
    /\ pending' = [pending EXCEPT ![p] = [name |-> name, start_date |-> now]]
    /\ pc' = [pc EXCEPT ![p] = "insert"]
    /\ UNCHANGED <<jobs, users, sqlite_sequence, now, ret, session, obj>>

create_insert(p) ==
    /\ pc[p] = "insert"
    /\ CanInsertSeason(seasons, pending[p].name)
    /\ LET o == InsertSeason(seasons, sqlite_sequence.seasons, pending[p].name,
                             pending[p].start_date, now)
       IN  /\ seasons' = o.seasons
           /\ sqlite_sequence' = [sqlite_sequence EXCEPT !.seasons = o.seq]
           /\ ret' = IF o.error # "" THEN Raised(o.error) ELSE Returned(o.id)
    /\ pending' = [pending EXCEPT ![p] = NoSeason]
    /\ pc' = [pc EXCEPT ![p] = "idle"]
    /\ UNCHANGED <<jobs, users, now, session, obj>>

crash(p) ==
    /\ pc[p] = "insert"
    /\ pending' = [pending EXCEPT ![p] = NoSeason]
    /\ pc' = [pc EXCEPT ![p] = "idle"]
    /\ UNCHANGED <<seasons, jobs, users, sqlite_sequence, now, ret, session, obj>>

NextSteps ==
    \/ \E p \in Procs, name \in StoredNames : create_update(p, name)
    \/ \E p \in Procs : create_insert(p)
    \/ \E p \in Procs : crash(p)
    \/ \E r \in Registrations : register_user(r[1], r[2], r[3], r[4])
    \/ quick_fix
    \/ Tick

SpecSteps == Init /\ [][NextSteps]_vars


(***************************************************************************)
(* Jobs after their creation: status updates, deletions and the reads,     *)
(* with seasons created and deleted through the repository.                *)
(***************************************************************************)
SearchTerm == <<"c", "M">>
ExistingSeasonIds == {r.id : r \in seasons}

NextJobOps ==
    \/ SeasonRepository_create(Fall)
    \/ \E id \in SeasonIds : SeasonRepository_delete(id)
    \/ \E id \in ExistingSeasonIds : JobRepository_create(id, Engineer, Acme, "Applied")
    \/ \E id \in JobIds : update_job_status(id, "Offer")
    \/ \E id \in JobIds : delete_job(id)
    \/ \E id \in JobIds, u \in UserIds : get_job_by_id(id, u)
    \/ \E id \in ExistingSeasonIds \cup {NULL}, u \in UserIds : get_jobs_by_season(id, u)
    \/ \E id \in ExistingSeasonIds \cup {NULL} : get_jobs_by_status("Applied", id)
    \/ \E id \in ExistingSeasonIds \cup {NULL} : search_jobs(SearchTerm, id)
    \/ \E id \in SeasonIds \cup {NULL} : get_job_statistics(id)
    \/ \E r \in Registrations : register_user(r[1], r[2], r[3], r[4])
    \/ quick_fix

SpecJobOps == Init /\ [][NextJobOps]_vars

(***************************************************************************)
(* The status of a job: every JobStatus value as the new status.           *)
(***************************************************************************)
NextStatus ==
    \/ SeasonRepository_create(Fall)
    \/ \E id \in SeasonIds : SeasonRepository_delete(id)
    \/ \E id \in ExistingSeasonIds : JobRepository_create(id, Engineer, Acme, "Applied")
    \/ \E id \in JobIds, st \in JobStatus : update_job_status(id, st)
    \/ Tick

SpecStatus == Init /\ [][NextStatus]_vars

(***************************************************************************)
(* Accounts and the session: registration, login, logout and a guarded     *)
(* request, with a season to end.                                          *)
(***************************************************************************)
ZedLower == <<"z", "e", "d">>
ZedMailUpper == <<"Z", "@", "X", ".", "i", "o">>
Hunter == <<"h", "u", "n", "t", "e", "r">>

AuthRegistrations ==
    {<<Zed, ZedMail, Secret, FullName>>, <<Amy, AmyMail, Hunter, FullName>>,
     <<Zed, AmyMail, Hunter, FullName>>, <<ZedLower, AmyMail, Hunter, FullName>>,
     <<Amy, ZedMailUpper, Hunter, FullName>>}

LoginNames == {Zed, Amy, ZedMailUpper}
Passwords == {Secret, Hunter}

NextAuth ==
    \/ \E r \in AuthRegistrations : register_user(r[1], r[2], r[3], r[4])
    \/ \E name \in LoginNames, password \in Passwords : login_user(name, password)
    \/ logout_user
    \/ SeasonRepository_create(Fall)
    \/ \E is_json \in BOOLEAN : route_end_current_season(is_json)
    \/ Tick

SpecAuth == Init /\ [][NextAuth]_vars

(***************************************************************************)
(* Accounts that can be deactivated while a session is bound to them.      *)
(***************************************************************************)
NextAccounts ==
    \/ \E r \in AuthRegistrations : register_user(r[1], r[2], r[3], r[4])
    \/ \E name \in LoginNames, password \in Passwords : login_user(name, password)
    \/ logout_user
    \/ \E id \in UserIds : deactivate_user(id)
    \/ Tick

SpecAccounts == Init /\ [][NextAccounts]_vars

(***************************************************************************)
(* The active-season endpoint, asked by the users who log in.              *)
(***************************************************************************)
NextEndpoint ==
    \/ \E r \in Registrations : register_user(r[1], r[2], r[3], r[4])
    \/ \E name \in LoginNames, password \in Passwords : login_user(name, password)
    \/ logout_user
    \/ \E name \in StoredNames : SeasonRepository_create(name)
    \/ \E id \in ExistingSeasonIds : JobRepository_create(id, Engineer, Acme, "Applied")
    \/ quick_fix
    \/ \E is_json \in BOOLEAN : route_get_active_season(is_json)

SpecEndpoint == Init /\ [][NextEndpoint]_vars

(***************************************************************************)
(* The lists of seasons and of jobs, with the clock moving between the     *)
(* insertions.                                                             *)
(***************************************************************************)
Winter == <<"W", "i", "n", "t", "e", "r">>
ListedNames == StoredNames \cup {Winter}

NextLists ==
    \/ \E name \in ListedNames : SeasonRepository_create(name)
    \/ \E id \in ExistingSeasonIds, st \in StatusInputs :
           JobRepository_create(id, Engineer, Acme, st)
    \/ SeasonRepository_get_all
    \/ \E u \in UserIds : get_all_seasons(u)
    \/ \E id \in ExistingSeasonIds : JobRepository_get_by_season_call(id)
    \/ \E id \in ExistingSeasonIds \cup {NULL}, u \in UserIds : get_jobs_by_season(id, u)
    \/ \E id \in ExistingSeasonIds \cup {NULL} : get_jobs_by_status("Applied", id)
    \/ \E id \in ExistingSeasonIds \cup {NULL} : search_jobs(SearchTerm, id)
    \/ Tick

SpecLists == Init /\ [][NextLists]_vars

(***************************************************************************)
(* Model objects: a Job or a Season as its constructor leaves it, turned   *)
(* into a dict and back while the clock moves.                             *)
(***************************************************************************)
OptionalTexts == {None, Some(Acme)}
OptionalIds == {NULL, 1}
OptionalTimes == {NULL, 1}

JobObjects ==
    {Job_post_init(
         [id |-> id, season_id |-> id, role |-> Engineer, company_name |-> Acme,
          company_website |-> website, source |-> source, current_status |-> status,
          job_description |-> details, resume_sent |-> details,
          applied_date |-> applied, last_updated |-> NULL,
          season_name |-> IF id = NULL THEN None ELSE Some(Fall)], 1) :
         id \in OptionalIds, website \in OptionalTexts, source \in OptionalTexts,
         details \in OptionalTexts, status \in JobStatusMembers,
         applied \in OptionalTimes}

SeasonObjects ==
    {Season_post_init(
         [id |-> id, name |-> Fall, start_date |-> start, end_date |-> end,
          is_active |-> active, created_at |-> start], 1) :
         id \in OptionalIds, start \in OptionalTimes, end \in OptionalTimes,
         active \in BOOLEAN}

InitModels ==
    /\ seasons = {}
    /\ jobs = {}
    /\ users = {}
    /\ sqlite_sequence = [seasons |-> 0, jobs |-> 0, users |-> 0]
    /\ now = 1
    /\ ret = NoCall
    /\ pc = [p \in Procs |-> "idle"]
    /\ pending = [p \in Procs |-> NoSeason]
    /\ session = NoSession
    /\ \/ \E job \in JobObjects :
              obj = [class |-> "Job", self |-> job, data |-> Missing, copy |-> Missing]
       \/ \E season \in SeasonObjects :
              obj = [class |-> "Season", self |-> season, data |-> Missing,
                     copy |-> Missing]

NextModels ==
    \/ to_dict
    \/ from_dict
    \/ Tick

SpecModels == InitModels /\ [][NextModels]_vars

(***************************************************************************)
(* Properties.  An owner is a user id stored in a row's user_id column;    *)
(* the callers of the service are the registered users.                    *)
(***************************************************************************)
RegisteredIds == {u.id : u \in users}
ActiveOfIn(rows, o) == {r \in rows : r.user_id = o /\ r.is_active = 1}
ActiveOf(o) == ActiveOfIn(seasons, o)
IsFailure(r) == r.kind \in {"fail", "raise"}
NameUnused(name) == ~ \E r \in seasons : r.name = name

\* C1: with calls running one at a time, no owner ever has two seasons that
\* are active at once.
C1_OneActiveSeasonPerOwner ==
    \A r \in seasons, q \in seasons :
        (r.is_active = 1 /\ q.is_active = 1 /\ r.user_id = q.user_id) => r.id = q.id

\* an owner's earlier season was ended by the creation of the now active one
C1_Witness ==
    \E r \in seasons, q \in seasons :
        /\ r.user_id \in UserIds /\ q.user_id = r.user_id
        /\ q.id < r.id /\ q.is_active = 0 /\ q.end_date # NULL
        /\ r.is_active = 1 /\ q.end_date = r.created_at

\* C2: createSeason with a valid unused name, called by an owner who has an
\* active season S, returns success with the new id, ends S (inactive, end
\* date set) and leaves the new season as the owner's active one.
C2_CreateSeasonTransitions ==
    [][\A name \in SeasonNames, O \in RegisteredIds :
          (/\ create_season(name, O)
           /\ validate_season_name(name).ok
           /\ NameUnused(name)
           /\ ActiveOf(O) # {})
          => /\ ret'.kind = "ok"
             /\ \A S \in ActiveOf(O) :
                    \E q \in seasons' :
                        q.id = S.id /\ q.is_active = 0 /\ q.end_date # NULL
             /\ \E n \in seasons' :
                    /\ n.id = ret'.value /\ n.name = name /\ n.is_active = 1
                    /\ ActiveOfIn(seasons', O) = {n}]_vars

\* C5: createSeason with a valid unused name succeeds, whether or not a
\* season is active when it is called.
C5_CreateSeasonNeverRejected ==
    [][\A name \in SeasonNames, O \in RegisteredIds :
          (create_season(name, O) /\ validate_season_name(name).ok /\ NameUnused(name))
          => ret'.kind = "ok"]_vars

\* C6: a createSeason call that fails (a raised exception or a returned
\* failure) leaves every season row as it was.
C6_FailedCreateChangesNothing ==
    [][\A name \in SeasonNames :
          (/\ \/ SeasonRepository_create(name)
              \/ \E u \in UserIds : create_season(name, u)
           /\ IsFailure(ret'))
          => seasons' = seasons]_vars

\* C7: createSeason and endCurrentSeason called by owner A leave every season
\* of another owner B as it was.
C7_OtherOwnersSeasonsUntouched ==
    [][\A A \in RegisteredIds, B \in RegisteredIds :
          (/\ A # B
           /\ \/ end_current_season
              \/ \E name \in SeasonNames : create_season(name, A))
          => \A r \in seasons : r.user_id = B => r \in seasons']_vars

\* C8: endCurrentSeason called by owner O fails and changes nothing when O has
\* no active season; otherwise it succeeds, O's active season becomes inactive
\* with an end date and O has no active season afterwards.  (Stated for the
\* stores in which every season row carries a registered owner.)
C8_EndCurrentSeasonOfOwner ==
    [][(end_current_season /\ \A r \in seasons : r.user_id \in RegisteredIds) =>
          \A O \in RegisteredIds :
              IF ActiveOf(O) = {}
              THEN ret' = Failure("No active season found") /\ seasons' = seasons
              ELSE /\ ret'.kind = "ok"
                   /\ \A S \in ActiveOf(O) :
                          \E q \in seasons' :
                              q.id = S.id /\ q.is_active = 0 /\ q.end_date # NULL
                   /\ ActiveOfIn(seasons', O) = {}]_vars

\* C3: createSeason's two steps take effect together: every step by which a
\* createSeason call ends the active season also puts the new season in place.
C3_CreateSeasonAtomic ==
    [][\A p \in Procs :
          (pc[p] = "idle" /\ pc'[p] = "insert" /\ ActiveSeasons # {})
          => \E n \in seasons' : n.name = pending'[p].name /\ n.is_active = 1]_vars

\* C4: with the statements of concurrent createSeason calls interleaved, no
\* owner has two active seasons.
C4_OneActiveSeasonUnderInterleaving ==
    \A o \in UserIds : Cardinality(ActiveOfIn(seasons, o)) <= 1

\* C9: addJob with valid fields for an owner without an active season returns
\* the "no active season" failure and stores no job.
C9_AddJobWithoutActiveSeason ==
    [][\A role \in Roles, company \in Companies, O \in RegisteredIds :
          (/\ add_job(role, company, "Applied", O)
           /\ validate_role(role).ok /\ validate_company_name(company).ok
           /\ ActiveOf(O) = {})
          => /\ ret' = Failure("No active season found. Please create a season first.")
             /\ jobs' = jobs]_vars

\* C10: every stored job has the owner of the season it references.
C10_JobOwnerIsSeasonOwner ==
    \A j \in jobs, r \in seasons : r.id = j.season_id => j.user_id = r.user_id

(***************************************************************************)
(* Jobs and their owners.                                                  *)
(***************************************************************************)
JobsOf(o) == {j \in jobs : j.user_id = o}
EveryJobOwnedAndListed ==
    \A j \in jobs : j.user_id \in RegisteredIds /\ j \in JoinedJobs

\* C11: updateStatus called by owner O on a job that exists and belongs to
\* another owner fails and leaves that job (status, last-updated) as it was.
C11_UpdateStatusOfForeignJob ==
    [][\A id \in JobIds, O \in RegisteredIds :
          (/\ ret'.kind \in {"ok", "fail"}
           /\ update_job_status(id, "Offer")
           /\ EveryJobOwnedAndListed
           /\ \E j \in jobs : j.id = id /\ j.user_id # O)
          => /\ IsFailure(ret')
             /\ \A j \in jobs : j.id = id => j \in jobs']_vars

\* C12: deleteJob called by owner O fails and deletes nothing when the job is
\* absent or belongs to another owner; otherwise exactly that job is removed,
\* getJob returns none for its id and every other job stays as it was.
C12_DeleteJobOfOwner ==
    [][\A id \in JobIds, O \in RegisteredIds :
          (ret'.kind \in {"ok", "fail"} /\ delete_job(id) /\ EveryJobOwnedAndListed)
          => IF \E j \in JobsOf(O) : j.id = id
             THEN /\ ret'.kind = "ok"
                  /\ jobs' = {j \in jobs : j.id # id}
                  /\ ~ \E j \in jobs' : j.id = id
             ELSE IsFailure(ret') /\ jobs' = jobs]_vars

\* C13: the reads called by owner O return no job of another owner and count
\* no job of another owner, whatever job id or season id is supplied.
C13_ReadsAreOwnerScoped ==
    [][\A O \in RegisteredIds :
          EveryJobOwnedAndListed =>
             /\ ((/\ ret'.kind = "rows"
                  /\ \/ \E id \in JobIds : get_job_by_id(id, O)
                     \/ \E id \in SeasonIds \cup {NULL} : get_jobs_by_season(id, O)
                     \/ \E id \in SeasonIds \cup {NULL} :
                            get_jobs_by_status("Applied", id)
                     \/ \E id \in SeasonIds \cup {NULL} : search_jobs(SearchTerm, id))
                 => (\A j \in ret'.rows : j.user_id = O))
             /\ ((/\ ret'.kind = "stats"
                  /\ \E id \in SeasonIds \cup {NULL} : get_job_statistics(id))
                 => ("total_jobs" \in DOMAIN ret'.stats =>
                        ret'.stats.total_jobs <= Cardinality(JobsOf(O))))]_vars

\* season ids that AUTOINCREMENT handed out and whose row is deleted
DeletedSeasonIds ==
    {id \in SeasonIds : id <= sqlite_sequence.seasons /\ ~ \E r \in seasons : r.id = id}

\* C14: once a season is deleted it stays deleted, and from then on listJobs
\* for its id is empty, getJob returns none for each job that referenced it,
\* and no read of the service returns such a job.
C14_DeletedSeasonHidesJobs ==
    /\ [](\A id \in DeletedSeasonIds :
              /\ JobRepository_get_by_season(id) = {}
              /\ \A j \in jobs : j.season_id = id => JobRepository_get_by_id(j.id) = {})
    /\ [][/\ DeletedSeasonIds \subseteq DeletedSeasonIds'
          /\ ret'.kind = "rows" =>
                 (\A j \in ret'.rows : j.season_id \notin DeletedSeasonIds')]_vars

\* a job row outlives the season it referenced
C14_Witness ==
    \E j \in jobs : j.season_id \in DeletedSeasonIds

\* C20: updateStatus on a job that getJob returns succeeds for every current
\* status and every new status; afterwards the job has the new status and a
\* refreshed last-updated, its other fields and all other jobs are as before.
C20_AnyStatusTransition ==
    [][\A id \in JobIds, st \in JobStatus :
          (update_job_status(id, st) /\ JobRepository_get_by_id(id) # {})
          => /\ ret'.kind = "ok"
             /\ Cardinality(jobs') = Cardinality(jobs)
             /\ \A j \in jobs :
                    IF j.id = id
                    THEN [j EXCEPT !.current_status = st, !.last_updated = now]
                             \in jobs'
                    ELSE j \in jobs']_vars

\* a job is back at "Applied" through an update made after it was added,
\* next to a job that no update touched
C20_Witness ==
    /\ ret = Success("Job status updated", NULL)
    /\ \E j \in jobs, k \in jobs :
           /\ j.current_status = "Applied" /\ j.last_updated > j.applied_date
           /\ k.id # j.id /\ k.last_updated = k.applied_date

(***************************************************************************)
(* Accounts.                                                               *)
(***************************************************************************)
\* equal up to the case of letters and surrounding blanks
SameText(a, b) ==
    /\ Len(strip(a)) = Len(strip(b))
    /\ \A i \in 1..Len(strip(a)) : lower_char(strip(a)[i]) = lower_char(strip(b)[i])

WellFormedRegistration(username, email, password, full_name) ==
    /\ Len(username) >= USERNAME_MIN_LENGTH /\ username_matches(username)
    /\ email_matches(email)
    /\ Len(password) >= PASSWORD_MIN_LENGTH
    /\ Len(strip(full_name)) >= FULL_NAME_MIN_LENGTH

\* the user registered with this password: the stored hash is its hash
RegisteredWith(u, password) ==
    \E salt \in Salts : u.password_hash = hashpw(password, salt)

\* C15: a well-formed registration whose username or email exists already,
\* also when only the letter case differs, fails as a conflict, adds no user
\* and leaves every user row as it was.
C15_DuplicateRegistrationRejected ==
    [][\A r \in AuthRegistrations :
          (/\ register_user(r[1], r[2], r[3], r[4])
           /\ WellFormedRegistration(r[1], r[2], r[3], r[4])
           /\ \E u \in users : SameText(u.username, r[1]) \/ SameText(u.email, r[2]))
          => /\ ret'.kind = "fail"
             /\ ret'.msg \in {"Username already exists", "Email already exists"}
             /\ users' = users]_vars

\* only "zed" is registered and a registration failed on the email: it came
\* with an unused username and zed's email in another letter case
C15_Witness ==
    /\ ret = Failure("Email already exists")
    /\ \A u \in users : u.username = ZedLower
    /\ users # {}

\* C16: login with the name of an existing user and a password that is not
\* the user's fails, leaves last-login (every user row) as it was and leaves
\* the session as it was.
C16_WrongPasswordRejected ==
    [][\A name \in LoginNames, password \in Passwords :
          (/\ login_user(name, password)
           /\ \E u \in users :
                  /\ SameText(u.username, name) \/ SameText(u.email, name)
                  /\ ~RegisteredWith(u, password))
          => /\ ret' = Failure("Invalid username/email or password")
             /\ users' = users
             /\ session' = session]_vars

\* a login failed while both accounts that the login names can mean exist,
\* and the session of an earlier login is still there
C16_Witness ==
    /\ ret = Failure("Invalid username/email or password")
    /\ \E u \in users, w \in users : u.username = ZedLower /\ w.username = Amy
    /\ session.user_id # NULL

\* C17: a registered user logs in with the username in any letter case, or
\* with the email, and the registration password: the login succeeds, returns
\* the id given at registration, sets last-login and binds the session.
C17_RegisteredUserCanLogIn ==
    [][\A name \in LoginNames, password \in Passwords, u \in users :
          (/\ login_user(name, password)
           /\ SameText(u.username, name) \/ SameText(u.email, name)
           /\ RegisteredWith(u, password))
          => /\ ret' = Success("Login successful", u.id)
             /\ [u EXCEPT !.last_login = now] \in users'
             /\ session'.user_id = u.id]_vars

\* zed, registered as "Zed", is logged in and has a last-login
C17_Witness ==
    /\ ret.msg = "Login successful"
    /\ \E u \in users :
           u.username = ZedLower /\ u.last_login # NULL /\ session.user_id = u.id

\* C18: the session has no identity at the start; a successful login binds
\* it to the id of the user who logged in, a logout clears it, and no other
\* step changes it.
C18_SessionFollowsLoginAndLogout ==
    /\ ~is_logged_in
    /\ [][IF \E name \in LoginNames, password \in Passwords :
                 login_user(name, password) /\ ret'.msg = "Login successful"
          THEN is_logged_in' /\ get_current_user_id' = ret'.value
          ELSE IF logout_user
          THEN ~is_logged_in'
          ELSE session' = session]_vars

\* the second user is logged in after both users have logged in
C18_Witness ==
    /\ is_logged_in
    /\ get_current_user_id = 2
    /\ \A u \in users : u.last_login # NULL
    /\ Cardinality(users) = 2

\* C19: a request to the guarded route that arrives without a session
\* identity gets the 401 (JSON) or the redirect to login, and seasons, jobs
\* and users are as before.
C19_UnauthenticatedRequestRejected ==
    [][\A is_json \in BOOLEAN :
          (route_end_current_season(is_json) /\ session.user_id = NULL)
          => /\ ret' = IF is_json
                       THEN Response(HTTP_UNAUTHORIZED, "Authentication required")
                       ELSE Response(HTTP_FOUND, "login_page")
             /\ UNCHANGED <<seasons, jobs, users>>]_vars

\* a request was turned away with 401 while a season was there to be ended
C19_Witness ==
    /\ ret = Response(HTTP_UNAUTHORIZED, "Authentication required")
    /\ session.user_id = NULL
    /\ ActiveSeasons # {}

(***************************************************************************)
(* Statistics.                                                             *)
(***************************************************************************)
JobsIn(season_id) == {j \in jobs : j.season_id = season_id}

RECURSIVE SumOver(_, _)
SumOver(f, keys) ==
    IF keys = {} THEN 0
    ELSE LET k == CHOOSE x \in keys : TRUE IN f[k] + SumOver(f, keys \ {k})

\* the statistics dict has both keys, with these numbers
IsStatisticsOf(stats, counted) ==
    /\ DOMAIN stats = {"total_jobs", "status_breakdown"}
    /\ stats.total_jobs = Cardinality(counted)
    /\ DOMAIN stats.status_breakdown = {j.current_status : j \in counted}
    /\ \A st \in DOMAIN stats.status_breakdown :
           stats.status_breakdown[st] = Cardinality({j \in counted : j.current_status = st})
    /\ SumOver(stats.status_breakdown, DOMAIN stats.status_breakdown) = stats.total_jobs

\* C21: statistics for a season returns the number of the season's jobs as
\* total and, for each status that a job of the season has, the number of the
\* jobs with it; the counts add up to the total.  Holds after every sequence
\* of job creations, status updates and deletions.
C21_StatisticsCountSeasonJobs ==
    [][\A id \in ExistingSeasonIds :
          get_job_statistics(id) =>
              ret'.kind = "stats" /\ IsStatisticsOf(ret'.stats, JobsIn(id))]_vars

\* statistics returned one "Applied" and one "Offer" job, in a store that
\* holds those two jobs in one season
C21_Witness ==
    /\ ret.kind = "stats"
    /\ DOMAIN ret.stats = {"total_jobs", "status_breakdown"}
    /\ ret.stats.total_jobs = 2
    /\ DOMAIN ret.stats.status_breakdown = {"Applied", "Offer"}
    /\ \E j \in jobs, k \in jobs :
           /\ j.season_id = k.season_id
           /\ j.current_status = "Applied" /\ k.current_status = "Offer"

\* C22: statistics for a season without jobs, and statistics without a season
\* id while no season is active, return the dict with total 0 and an empty
\* breakdown.
C22_EmptyStatistics ==
    [][\A id \in ExistingSeasonIds \cup {NULL} :
          (/\ get_job_statistics(id)
           /\ IF id = NULL THEN ActiveSeasons = {} ELSE JobsIn(id) = {})
          => ret'.kind = "stats" /\ IsStatisticsOf(ret'.stats, {})]_vars

(***************************************************************************)
(* Season names.                                                           *)
(***************************************************************************)
\* C23: a season name is taken only for the owner who used it: the creation
\* of a season named N on behalf of owner B fails when B has a season named
\* N, and succeeds otherwise, also while another owner has a season named N.
\* (Stated for the stores in which every season row carries a registered
\* owner.)
C23_SeasonNameUniquePerOwner ==
    [][\A name \in StoredNames, B \in RegisteredIds :
          (/\ SeasonRepository_create(name)
           /\ \A r \in seasons : r.user_id \in RegisteredIds)
          => IF \E r \in seasons : r.user_id = B /\ r.name = name
             THEN IsFailure(ret')
             ELSE ret'.kind = "ok"]_vars

(***************************************************************************)
(* Model objects.                                                          *)
(***************************************************************************)
\* C24: the object built by from_dict from the dict that to_dict made of a
\* Job or a Season equals the original in every field: for every status, for
\* absent and present optional fields, for both values of is_active.
C24_DictRoundTrip ==
    obj.copy # Missing => obj.copy = obj.self

\* an ended season without id came back from its dict after the clock moved
C24_Witness ==
    /\ obj.class = "Season"
    /\ obj.copy # Missing
    /\ ~obj.self.is_active /\ obj.self.end_date # NULL /\ obj.self.id = NULL
    /\ now > obj.self.created_at

(***************************************************************************)
(* Lists.                                                                  *)
(***************************************************************************)
\* most recent first; of two items with the same timestamp the lower id first
Ordered(list, key) ==
    \A i \in DOMAIN list, k \in DOMAIN list :
        i < k => \/ list[i][key] > list[k][key]
                 \/ list[i][key] = list[k][key] /\ list[i].id < list[k].id

C26_JobInsertedIntoActiveSeason ==
    [][\A id \in SeasonIds :
          (/\ JobRepository_create(id, Engineer, Acme, "Applied")
           /\ jobs' # jobs
           /\ \E r \in seasons : r.id = id)
          => \E r \in seasons : r.id = id /\ r.is_active = 1]_vars

(***************************************************************************)
(* The life of a season row.                                               *)
(***************************************************************************)
\* C27: in every state a season is active exactly when it has no end date,
\* and a season that is inactive stays inactive and keeps its end date for as
\* long as its row exists.
C27_EndedSeasonStaysEnded ==
    /\ [](\A r \in seasons : r.is_active = 1 <=> r.end_date = NULL)
    /\ [][\A r \in seasons, q \in seasons' :
              (r.is_active = 0 /\ q.id = r.id)
              => q.is_active = 0 /\ q.end_date = r.end_date]_vars

\* a season ended at the first reading of the clock is still ended, with that
\* end date, after a later season was created and ended at the second
C27_Witness ==
    \E r \in seasons, q \in seasons :
        /\ r.id < q.id
        /\ r.is_active = 0 /\ r.end_date = 1
        /\ q.is_active = 0 /\ q.end_date = 2

(***************************************************************************)
(* Jobs and the season row they reference.                                 *)
(***************************************************************************)
\* C28: in every state each job row references a season row that exists, and
\* statistics for the id of a deleted season count no job.
C28_JobsReferenceExistingSeason ==
    /\ \A j \in jobs : \E r \in seasons : r.id = j.season_id
    /\ \A id \in DeletedSeasonIds : JobRepository_get_statistics(id).total_jobs = 0

(***************************************************************************)
(* The user of a session.                                                  *)
(***************************************************************************)
\* C29: in every state in which the session is authenticated, the current
\* user of the session is a user, also after that user was deactivated.
C29_AuthenticatedSessionHasUser ==
    is_logged_in => get_current_user # {}

(***************************************************************************)
(* The active-season endpoint.                                             *)
(***************************************************************************)
\* C30: asked by a logged-in user whose seasons include the active one, the
\* active-season endpoint returns that season together with the statistics
\* of that same season: total and breakdown count the jobs of the returned
\* season.
C30_ActiveSeasonWithItsStatistics ==
    [][\A is_json \in BOOLEAN :
          (/\ route_get_active_season(is_json)
           /\ is_logged_in
           /\ ActiveOf(get_current_user_id) # {})
          => /\ ret'.kind = "active"
             /\ ret'.value \in {r.id : r \in ActiveOf(get_current_user_id)}
             /\ IsStatisticsOf(ret'.stats, JobsIn(ret'.value))]_vars

====
